---- MODULE Spec2Model ----
(***************************************************************************)
(* Model of libcloud.utils.misc.retry: the retry decorator with backoff    *)
(* and rate-limit aware deadline widening (src/libcloud/utils/misc.py).    *)
(*                                                                         *)
(* One call of the wrapper (retry_loop) is a process with its own locals   *)
(* delay, end, exc_info and e; the policy (retry_exceptions, retry_delay,  *)
(* timeout, backoff) is the closure of retry() and is never assigned.      *)
(* Time is in whole seconds.  now[c] is the reading of datetime.now() at   *)
(* the position call c has reached: it advances by the duration of each    *)
(* invocation of func and by each time.sleep(), and by nothing else.       *)
(***************************************************************************)
EXTENDS Integers, Sequences, FiniteSets, TLC

\* ---------------------------------------------------------------- bounds
\* Most invocations of func one call may make inside the loop when run alone.
MaxAttempts == 3
\* Most invocations of func one call may make when two calls run together.
MaxConcAttempts == 2
\* Longest time one invocation of func may take (it takes that, or none).
MaxOpDur == 2
\* Largest timeout of a policy.
MaxTimeout == 5

\* The calls of one wrapper that may run at the same time.
Calls == {1, 2}

\* ------------------------------------------------------- exception types
\* EXCEPTION_TYPES, the default of retry_exceptions.
EXCEPTION_TYPES ==
    {"RateLimitReachedError", "socket.error", "socket.gaierror",
     "httplib.NotConnected", "httplib.ImproperConnectionState"}

\* The values of the retry_exceptions parameter that are explored.
RetryExceptionChoices == {EXCEPTION_TYPES, {"socket.error"}}

\* What func may raise: a rate-limit error, a transient error, another error.
OpErrorKinds == {"RateLimitReachedError", "socket.error", "ValueError"}

\* retry_after values a RateLimitReachedError may carry.
RetryAfters == {0, 1, 10}

\* The retry_delay, timeout and backoff values that are explored.
RetryDelays == {0, 1, 2}
Timeouts == -1..MaxTimeout
Backoffs == {0, 1, 2}
OpDurations == {0, MaxOpDur}
\* The durations explored with two calls running together.
ConcOpDurations == {0}

\* The outcomes of invocation number n of func: a value or a raised error.
\* id tells apart the objects produced by different invocations.
Outcomes(n) ==
    {[kind |-> "ok", id |-> n, retry_after |-> 0]}
    \cup {[kind |-> k, id |-> n, retry_after |-> 0] :
             k \in OpErrorKinds \ {"RateLimitReachedError"}}
    \cup {[kind |-> "RateLimitReachedError", id |-> n, retry_after |-> r] :
             r \in RetryAfters}

\* Python's None, as an exception slot.
None == [kind |-> "None", id |-> 0, retry_after |-> 0]

VARIABLES
    retry_exceptions,   \* policy: kinds of exception retried on
    retry_delay,        \* policy: first delay
    timeout,            \* policy: time budget
    backoff,            \* policy: delay multiplier
    pc,                 \* pc[c]: position of call c in retry_loop
    now,                \* now[c]: clock reading at call c's position
    delay,              \* delay[c]: local delay
    end,                \* end[c]: local end (the deadline)
    exc_info,           \* exc_info[c]: local exc_info
    e,                  \* e[c]: the exception caught at line 327
    result,             \* result[c]: what the call returned or raised
    sleeps,             \* sleeps[c]: durations passed to time.sleep, in order
    hist,               \* hist[c]: the invocations of func made, in order
    drivers,            \* the drivers dictionary handed to get_driver / set_driver
    last_call           \* the last call of get_driver / set_driver and its outcome

policy == <<retry_exceptions, retry_delay, timeout, backoff>>
locals == <<pc, now, delay, end, exc_info, e, result, sleeps, hist>>
registry == <<drivers, last_call>>
vars == <<retry_exceptions, retry_delay, timeout, backoff,
          pc, now, delay, end, exc_info, e, result, sleeps, hist,
          drivers, last_call>>

NoResult == [how |-> "none", val |-> None]

\* Number of invocations of func call c has made.
invoked(c) == Len(hist[c])

\* ---------------------------------------------------------------- helpers
\* Variant: a bare except that catches every exception.
IsRetryable_Any(x) == TRUE

\* except retry_exceptions: (line 326)
IsRetryable(x) == x.kind \in retry_exceptions

\* Variant: no exception is recognised as a rate-limit error.
IsRateLimit_Never(x) == FALSE

\* isinstance(e, RateLimitReachedError) (line 329)
IsRateLimit(x) == x.kind = "RateLimitReachedError"

\* Variant: the deadline set without the budget.
InitialEnd_NoBudget(t) == t

\* datetime.now() + timedelta(seconds=timeout) (line 320)
InitialEnd(t) == t + timeout

\* Variant: the comparison of the loop condition is reversed.
LoopCond_Reversed(c) == now[c] > end[c]

\* Variant: a loop condition that is not strict.
LoopCond_Le(c) == now[c] <= end[c]

\* while datetime.now() < end (line 322)
LoopCond(c) == now[c] < end[c]

\* Variants: the widening without retry_after, without timeout, and
\* without the clock reading.
WidenedEnd_NoRetryAfter(t, r) == t + timeout
WidenedEnd_NoTimeout(t, r) == t + r
WidenedEnd_NoClock(t, r) == r + timeout

\* datetime.now() + timedelta(seconds=e.retry_after + timeout), read at time t
\* (lines 331-332)
WidenedEnd(t, r) == t + r + timeout

\* Variants: backoff added to, or subtracted from, the delay.
NextDelay_Add(d) == d + backoff
NextDelay_Sub(d) == d - backoff

\* delay *= backoff (line 336)
NextDelay(d) == d * backoff

\* Variant: the caught exception is not recorded.
Recorded_Drop(old, caught) == old

\* Variant: only the first retryable exception is recorded.
Recorded_First(old, caught) == IF old = None THEN caught ELSE old

\* exc_info = e (line 334): the new value of exc_info.
Recorded(old, caught) == caught

\* Whether the run is of one call alone (the other call is never started).
Alone == \E c \in Calls : pc[c] = "unused"

\* The cap on the invocations of one call, and the durations of func: the
\* bounds of the model.
AttemptCap == IF Alone THEN MaxAttempts ELSE MaxConcAttempts
OpDurs == IF Alone THEN OpDurations ELSE ConcOpDurations

\* ------------------------------------------------------ driver registry
\* Provider ids, module names and class names handed to set_driver.
Providers == {"p1", "p2"}
Modules == {"good", "missing", "broken"}
Klasses == {"Driver", "Absent"}

\* The (module, class) pairs a drivers dictionary may hold.
Entries == Modules \X Klasses

\* The drivers dictionaries: a provider id is a key or is not.
Registries == UNION {[ps -> Entries] : ps \in SUBSET Providers}

\* The dictionary with no key.
EmptyRegistry == [p \in {} |-> <<"good", "Driver">>]

\* No call made yet.
NoCall == [op |-> "none", provider |-> "", entry |-> <<"", "">>,
           outcome |-> "none", before |-> EmptyRegistry]

\* __import__(mod_name, ...) (line 66): module "missing" cannot be found,
\* importing module "broken" raises an exception of another type.
Import(mod_name) ==
    CASE mod_name = "good" -> "ok"
      [] mod_name = "missing" -> "ImportError"
      [] OTHER -> "SyntaxError"

\* getattr(_mod, driver_name) (line 67): module "good" defines Driver only.
GetAttr(mod_name, driver_name) ==
    IF driver_name = "Driver" THEN "ok" ELSE "AttributeError"

\* get_driver(drivers, provider) (lines 64-69): "ok" when the class is
\* returned, else the type of the exception raised.
GetDriverOutcome(drvs, provider) ==
    IF provider \in DOMAIN drvs
      THEN IF Import(drvs[provider][1]) # "ok" THEN Import(drvs[provider][1])
           ELSE GetAttr(drvs[provider][1], drvs[provider][2])
      ELSE "AttributeError"

\* Variant: only ImportError is handled.
Handled_ImportOnly(exc) == exc = "ImportError"

\* except (ImportError, AttributeError) (line 93)
Handled(exc) == exc \in {"ImportError", "AttributeError"}

\* drivers[provider] = (module, klass) (line 88)
Put(drvs, provider, entry) ==
    [p \in DOMAIN drvs \cup {provider} |-> IF p = provider THEN entry ELSE drvs[p]]

\* drivers.pop(provider) (line 95)
Pop(drvs, provider) == [p \in DOMAIN drvs \ {provider} |-> drvs[p]]

\* ------------------------------------------------------------------ Init
InitPolicy ==
    /\ retry_exceptions \in RetryExceptionChoices
    /\ retry_delay \in RetryDelays
    /\ timeout \in Timeouts
    /\ backoff \in Backoffs

\* The policies explored with two calls running together.
InitConcPolicy ==
    /\ retry_exceptions = EXCEPTION_TYPES
    /\ retry_delay \in {1, 2}
    /\ timeout \in {0, 2}
    /\ backoff \in {0, 2}

InitLocals(started) ==
    /\ pc = [c \in Calls |-> IF c \in started THEN "start" ELSE "unused"]
    /\ now = [c \in Calls |-> 0]
    /\ delay = [c \in Calls |-> 0]
    /\ end = [c \in Calls |-> 0]
    /\ exc_info = [c \in Calls |-> None]
    /\ e = [c \in Calls |-> None]
    /\ result = [c \in Calls |-> NoResult]
    /\ sleeps = [c \in Calls |-> <<>>]
    /\ hist = [c \in Calls |-> <<>>]

\* No drivers dictionary in use.
InitNoRegistry == drivers = EmptyRegistry /\ last_call = NoCall

\* One call of the wrapper.
Init == InitPolicy /\ InitLocals({1}) /\ InitNoRegistry

\* --------------------------------------------------------------- actions
\* Lines 319-321: delay = retry_delay; end = now + timeout; exc_info = None.
Begin(c) ==
    /\ pc[c] = "start"
    /\ delay' = [delay EXCEPT ![c] = retry_delay]
    /\ end' = [end EXCEPT ![c] = InitialEnd(now[c])]
    /\ exc_info' = [exc_info EXCEPT ![c] = None]
    /\ pc' = [pc EXCEPT ![c] = "test"]
    /\ UNCHANGED <<registry, policy, now, e, result, sleeps, hist>>

\* Line 322: the loop condition, evaluated at loop-top.
LoopTest(c) ==
    /\ pc[c] = "test"
    /\ pc' = [pc EXCEPT ![c] = IF LoopCond(c) THEN "invoke" ELSE "after"]
    /\ UNCHANGED <<registry, policy, now, delay, end, exc_info, e, result, sleeps, hist>>

\* Variant: the deadline is checked again when func comes back, and an
\* outcome that arrives at or after it is dropped.
Invoke_DeadlineAfter(c) ==
    /\ pc[c] = "invoke"
    /\ invoked(c) < AttemptCap
    /\ \E dur \in OpDurs, out \in Outcomes(invoked(c) + 1) :
        /\ now' = [now EXCEPT ![c] = @ + dur]
        /\ hist' = [hist EXCEPT ![c] =
                      Append(@, [out |-> out, began |-> now[c],
                                 at |-> now[c] + dur, inloop |-> TRUE])]
        /\ IF now[c] + dur >= end[c]
             THEN /\ pc' = [pc EXCEPT ![c] = "after"]
                  /\ UNCHANGED <<result, e>>
             ELSE IF out.kind = "ok"
             THEN /\ result' = [result EXCEPT ![c] = [how |-> "return", val |-> out]]
                  /\ pc' = [pc EXCEPT ![c] = "done"]
                  /\ e' = e
             ELSE IF IsRetryable(out)
             THEN /\ e' = [e EXCEPT ![c] = out]
                  /\ pc' = [pc EXCEPT ![c] = "caught"]
                  /\ result' = result
             ELSE /\ result' = [result EXCEPT ![c] = [how |-> "raise", val |-> out]]
                  /\ pc' = [pc EXCEPT ![c] = "done"]
                  /\ e' = e
    /\ UNCHANGED <<registry, policy, delay, end, exc_info, sleeps>>

\* Lines 323-327: one invocation of func inside the loop.  It takes dur
\* seconds and either returns (the wrapper returns the value), raises an
\* exception outside retry_exceptions (it propagates) or raises one inside
\* (it is caught as e).
Invoke(c) ==
    /\ pc[c] = "invoke"
    /\ invoked(c) < AttemptCap
    /\ \E dur \in OpDurs, out \in Outcomes(invoked(c) + 1) :
        /\ now' = [now EXCEPT ![c] = @ + dur]
        /\ hist' = [hist EXCEPT ![c] =
                      Append(@, [out |-> out, began |-> now[c],
                                 at |-> now[c] + dur, inloop |-> TRUE])]
        /\ IF out.kind = "ok"
             THEN /\ result' = [result EXCEPT ![c] = [how |-> "return", val |-> out]]
                  /\ pc' = [pc EXCEPT ![c] = "done"]
                  /\ e' = e
             ELSE IF IsRetryable(out)
             THEN /\ e' = [e EXCEPT ![c] = out]
                  /\ pc' = [pc EXCEPT ![c] = "caught"]
                  /\ result' = result
             ELSE /\ result' = [result EXCEPT ![c] = [how |-> "raise", val |-> out]]
                  /\ pc' = [pc EXCEPT ![c] = "done"]
                  /\ e' = e
    /\ UNCHANGED <<registry, policy, delay, end, exc_info, sleeps>>

\* Variant: the rate-limit branch also applies the backoff to the delay.
RateLimited_Backoff(c) ==
    /\ pc[c] = "caught"
    /\ IsRateLimit(e[c])
    /\ sleeps' = [sleeps EXCEPT ![c] = Append(@, e[c].retry_after)]
    /\ now' = [now EXCEPT ![c] = @ + e[c].retry_after]
    /\ end' = [end EXCEPT ![c] = WidenedEnd(now'[c], e[c].retry_after)]
    /\ delay' = [delay EXCEPT ![c] = NextDelay(delay[c])]
    /\ pc' = [pc EXCEPT ![c] = "test"]
    /\ UNCHANGED <<registry, policy, exc_info, e, result, hist>>

\* Lines 329-332: a caught RateLimitReachedError: sleep retry_after, then
\* set end from the clock as it reads after the sleep.
RateLimited(c) ==
    /\ pc[c] = "caught"
    /\ IsRateLimit(e[c])
    /\ sleeps' = [sleeps EXCEPT ![c] = Append(@, e[c].retry_after)]
    /\ now' = [now EXCEPT ![c] = @ + e[c].retry_after]
    /\ end' = [end EXCEPT ![c] = WidenedEnd(now'[c], e[c].retry_after)]
    /\ pc' = [pc EXCEPT ![c] = "test"]
    /\ UNCHANGED <<registry, policy, delay, exc_info, e, result, hist>>

\* Variant: the suspend is cut at the deadline.
Transient_ClippedSleep(c) ==
    /\ pc[c] = "caught"
    /\ ~IsRateLimit(e[c])
    /\ exc_info' = [exc_info EXCEPT ![c] = Recorded(exc_info[c], e[c])]
    /\ LET d == IF now[c] + delay[c] > end[c] THEN end[c] - now[c] ELSE delay[c]
       IN /\ sleeps' = [sleeps EXCEPT ![c] = Append(@, d)]
          /\ now' = [now EXCEPT ![c] = @ + d]
    /\ delay' = [delay EXCEPT ![c] = NextDelay(delay[c])]
    /\ pc' = [pc EXCEPT ![c] = "test"]
    /\ UNCHANGED <<registry, policy, end, e, result, hist>>

\* Variant: the delay is one variable shared by all calls of the wrapper.
Transient_SharedDelay(c) ==
    /\ pc[c] = "caught"
    /\ ~IsRateLimit(e[c])
    /\ exc_info' = [exc_info EXCEPT ![c] = Recorded(exc_info[c], e[c])]
    /\ sleeps' = [sleeps EXCEPT ![c] = Append(@, delay[c])]
    /\ now' = [now EXCEPT ![c] = @ + delay[c]]
    /\ delay' = [k \in Calls |-> NextDelay(delay[c])]
    /\ pc' = [pc EXCEPT ![c] = "test"]
    /\ UNCHANGED <<registry, policy, end, e, result, hist>>

\* Lines 333-336: any other caught exception: record it, sleep delay,
\* multiply delay by backoff.
Transient(c) ==
    /\ pc[c] = "caught"
    /\ ~IsRateLimit(e[c])
    /\ exc_info' = [exc_info EXCEPT ![c] = Recorded(exc_info[c], e[c])]
    /\ sleeps' = [sleeps EXCEPT ![c] = Append(@, delay[c])]
    /\ now' = [now EXCEPT ![c] = @ + delay[c]]
    /\ delay' = [delay EXCEPT ![c] = NextDelay(delay[c])]
    /\ pc' = [pc EXCEPT ![c] = "test"]
    /\ UNCHANGED <<registry, policy, end, e, result, hist>>

\* Lines 337-338: after the loop: raise exc_info if one was recorded.
AfterLoop(c) ==
    /\ pc[c] = "after"
    /\ IF exc_info[c] # None
         THEN /\ result' = [result EXCEPT ![c] = [how |-> "raise", val |-> exc_info[c]]]
              /\ pc' = [pc EXCEPT ![c] = "done"]
         ELSE /\ result' = result
              /\ pc' = [pc EXCEPT ![c] = "fallback"]
    /\ UNCHANGED <<registry, policy, now, delay, end, exc_info, e, sleeps, hist>>

\* Line 339: return func(*args, **kwargs): the value is returned, any
\* exception propagates.
Fallback(c) ==
    /\ pc[c] = "fallback"
    /\ \E dur \in OpDurs, out \in Outcomes(invoked(c) + 1) :
        /\ now' = [now EXCEPT ![c] = @ + dur]
        /\ hist' = [hist EXCEPT ![c] =
                      Append(@, [out |-> out, began |-> now[c],
                                 at |-> now[c] + dur, inloop |-> FALSE])]
        /\ result' = [result EXCEPT ![c] =
                        [how |-> IF out.kind = "ok" THEN "return" ELSE "raise",
                         val |-> out]]
        /\ pc' = [pc EXCEPT ![c] = "done"]
    /\ UNCHANGED <<registry, policy, delay, end, exc_info, e, sleeps>>

Next ==
    \E c \in Calls :
        \/ Begin(c)
        \/ LoopTest(c)
        \/ Invoke(c)
        \/ RateLimited(c)
        \/ Transient(c)
        \/ AfterLoop(c)
        \/ Fallback(c)

Spec == Init /\ [][Next]_vars

\* One call that keeps running: a started call takes its next step, func
\* comes back and time.sleep ends.
SpecLive == Init /\ [][Next]_vars /\ WF_vars(Next)

\* Two calls of the same wrapper, interleaved at every step.
InitConc == InitConcPolicy /\ InitLocals({1, 2}) /\ InitNoRegistry

SpecConc == InitConc /\ [][Next]_vars

\* get_driver(drivers, provider) (lines 56-69): the dictionary is only read.
GetDriver(provider) ==
    /\ last_call' = [op |-> "get_driver", provider |-> provider,
                     entry |-> <<"", "">>,
                     outcome |-> GetDriverOutcome(drivers, provider),
                     before |-> drivers]
    /\ UNCHANGED <<drivers, policy, locals>>

\* set_driver(drivers, provider, module, klass) (lines 72-98): raise when
\* the provider is a key; else store the pair, resolve it, and pop it again
\* when resolving raises ImportError or AttributeError; any other exception
\* of the import leaves set_driver as it is raised.
SetDriver(provider, module, klass) ==
    LET call(outcome) == [op |-> "set_driver", provider |-> provider,
                          entry |-> <<module, klass>>, outcome |-> outcome,
                          before |-> drivers]
        stored == Put(drivers, provider, <<module, klass>>)
        got == GetDriverOutcome(stored, provider)
    IN /\ IF provider \in DOMAIN drivers
            THEN /\ drivers' = drivers
                 /\ last_call' = call("AttributeError")
            ELSE IF got # "ok" /\ Handled(got)
            THEN /\ drivers' = Pop(stored, provider)
                 /\ last_call' = call(got)
            ELSE /\ drivers' = stored
                 /\ last_call' = call(got)
       /\ UNCHANGED <<policy, locals>>

\* The callers' drivers dictionary: any dictionary, no wrapper call running.
InitDrivers ==
    /\ drivers \in Registries
    /\ last_call = NoCall
    /\ retry_exceptions = EXCEPTION_TYPES
    /\ retry_delay = 0 /\ timeout = 0 /\ backoff = 0
    /\ InitLocals({})

NextDrivers ==
    \/ \E p \in Providers : GetDriver(p)
    \/ \E p \in Providers, m \in Modules, k \in Klasses : SetDriver(p, m, k)

SpecDrivers == InitDrivers /\ [][NextDrivers]_vars

\* =================================================================
\* Properties
\* =================================================================
RECURSIVE SumSeq(_)
SumSeq(s) == IF s = <<>> THEN 0 ELSE Head(s) + SumSeq(Tail(s))

RECURSIVE Pow(_, _)
Pow(b, n) == IF n = 0 THEN 1 ELSE b * Pow(b, n - 1)

\* Started calls.
Started == {c \in Calls : pc[c] # "unused"}

\* Invocation record h failed with a retryable error that is not a
\* rate-limit error / with a caught rate-limit error / non-retryably.
TransientFailure(h) ==
    h.out.kind \in retry_exceptions /\ h.out.kind # "RateLimitReachedError"
RateLimitFailure(h) ==
    h.out.kind \in retry_exceptions /\ h.out.kind = "RateLimitReachedError"
FatalFailure(h) == h.out.kind # "ok" /\ h.out.kind \notin retry_exceptions

\* The first n invocations of call c all failed transiently.
PrefixTransient(c, n) == \A i \in 1..n : TransientFailure(hist[c][i])

\* Time call c has spent suspended, and inside func.
Suspended(c) == SumSeq(sleeps[c])
InFunc(c) == SumSeq([i \in 1..Len(hist[c]) |-> hist[c][i].at - hist[c][i].began])

\* The call has left the loop on the deadline or has terminated.
LeftLoop(c) == pc[c] \in {"after", "fallback", "done"}

\* When the last invocation succeeded after transient failures only, its
\* value is returned and one suspend was made per failure.
ReturnsSuccess(c) ==
    (/\ pc[c] = "done"
     /\ Len(hist[c]) >= 1
     /\ PrefixTransient(c, Len(hist[c]) - 1)
     /\ hist[c][Len(hist[c])].out.kind = "ok")
    => /\ result[c] = [how |-> "return", val |-> hist[c][Len(hist[c])].out]
       /\ Len(sleeps[c]) = Len(hist[c]) - 1

\* C1 as stated: with timeout > 0, after N-1 transient failures whose
\* cumulative suspend time is at most timeout (func itself taking no time),
\* attempt N is made, and when it succeeds its value is returned after
\* exactly N invocations.
C1_Original ==
    \A c \in Started :
        timeout > 0 =>
            /\ (/\ PrefixTransient(c, Len(hist[c]))
                /\ InFunc(c) = 0
                /\ Suspended(c) <= timeout) => ~LeftLoop(c)
            /\ ReturnsSuccess(c)

\* C1 amended: with timeout > 0, after N-1 transient failures such that the
\* time suspended plus the time spent in func is strictly less than timeout,
\* attempt N is made, and when it succeeds its value is returned after
\* exactly N invocations and N-1 suspends.
C1_SuccessWithinBudget ==
    \A c \in Started :
        timeout > 0 =>
            /\ (/\ PrefixTransient(c, Len(hist[c]))
                /\ Suspended(c) + InFunc(c) < timeout) => ~LeftLoop(c)
            /\ ReturnsSuccess(c)

\* retry_delay=1, timeout=5, backoff=2, failures on attempts 1-2, success on 3.
C1_Witness ==
    /\ retry_delay = 1 /\ timeout = 5 /\ backoff = 2
    /\ pc[1] = "done"
    /\ Len(hist[1]) = 3
    /\ PrefixTransient(1, 2)
    /\ sleeps[1] = <<1, 2>>
    /\ result[1] = [how |-> "return", val |-> hist[1][3].out]

\* C2: with timeout <= 0 the loop body is never entered: no suspend, one
\* invocation (the one of line 339), whose outcome is the call's outcome.
C2_ZeroTimeoutPassthrough ==
    \A c \in Started :
        timeout <= 0 =>
            /\ pc[c] \notin {"invoke", "caught"}
            /\ sleeps[c] = <<>>
            /\ Len(hist[c]) <= 1
            /\ \A i \in 1..Len(hist[c]) : ~hist[c][i].inloop
            /\ pc[c] = "done" =>
                /\ Len(hist[c]) = 1
                /\ result[c] =
                     [how |-> IF hist[c][1].out.kind = "ok" THEN "return" ELSE "raise",
                      val |-> hist[c][1].out]

\* A rate-limit error that the policy retries on is propagated by the
\* passthrough.
C2_Witness ==
    /\ timeout <= 0
    /\ pc[1] = "done"
    /\ result[1].how = "raise"
    /\ RateLimitFailure(hist[1][1])

\* C3: an invocation that fails with an error outside retry_exceptions is the
\* last one: the call is over, that very error is its outcome, and no suspend
\* followed it (one suspend per earlier invocation, none for this one).
C3_NonRetryablePropagates ==
    \A c \in Started :
        \A i \in 1..Len(hist[c]) :
            FatalFailure(hist[c][i]) =>
                /\ i = Len(hist[c])
                /\ pc[c] = "done"
                /\ result[c] = [how |-> "raise", val |-> hist[c][i].out]
                /\ Len(sleeps[c]) = i - 1

\* A non-retryable error surfaces although a retryable one was recorded.
C3_Witness ==
    /\ pc[1] = "done"
    /\ exc_info[1] # None
    /\ Len(hist[1]) >= 2
    /\ FatalFailure(hist[1][Len(hist[1])])
    /\ result[1].val = hist[1][Len(hist[1])].out

\* C4: when the call raises after transient failures E1..Ek only, made in
\* the loop, the error raised is Ek, the last one.
C4_LastErrorSurfaces ==
    \A c \in Started :
        (/\ pc[c] = "done"
         /\ Len(hist[c]) >= 1
         /\ PrefixTransient(c, Len(hist[c]))
         /\ hist[c][1].inloop)
        => result[c] = [how |-> "raise", val |-> hist[c][Len(hist[c])].out]

\* The deadline is exhausted after three transient failures.
C4_Witness ==
    /\ pc[1] = "done"
    /\ Len(hist[1]) = 3
    /\ PrefixTransient(1, 3)
    /\ result[1].val.id = 3

\* C5: with no rate-limit failure so far, suspend number j lasts
\* retry_delay * backoff^(j-1), and there is one suspend per handled failure.
C5_BackoffGrowth ==
    \A c \in Started :
        (\A i \in 1..Len(hist[c]) : ~RateLimitFailure(hist[c][i])) =>
            /\ \A j \in 1..Len(sleeps[c]) :
                   sleeps[c][j] = retry_delay * Pow(backoff, j - 1)
            /\ Len(sleeps[c]) =
                   Cardinality({i \in 1..Len(hist[c]) :
                                   hist[c][i].inloop /\ TransientFailure(hist[c][i])})
                   - (IF pc[c] = "caught" THEN 1 ELSE 0)

\* Three consecutive transient failures: suspends 1, 2, 4.
C5_Witness ==
    /\ retry_delay = 1 /\ backoff = 2
    /\ PrefixTransient(1, Len(hist[1]))
    /\ sleeps[1] = <<1, 2, 4>>

\* The last invocation of call c, once it has made one.
LastInv(c) == hist[c][Len(hist[c])]

\* Call c is back at loop-top right after handling a rate-limit failure.
JustWidened(c) ==
    pc[c] = "test" /\ Len(hist[c]) >= 1 /\ RateLimitFailure(LastInv(c))

\* C6 as stated: after a rate-limit failure at time t0 carrying r, the call
\* has suspended for exactly r and the deadline is t0 + r + timeout.
C6_Original ==
    \A c \in Started :
        JustWidened(c) =>
            /\ sleeps[c][Len(sleeps[c])] = LastInv(c).out.retry_after
            /\ now[c] = LastInv(c).at + LastInv(c).out.retry_after
            /\ end[c] = LastInv(c).at + LastInv(c).out.retry_after + timeout

\* C6 amended: after a rate-limit failure at time t0 carrying r, the call
\* has suspended for exactly r and the deadline is t0 + 2r + timeout: the
\* clock is read after the suspend, at t0 + r, and r + timeout is added.
C6_WideningAfterSuspend ==
    \A c \in Started :
        JustWidened(c) =>
            /\ sleeps[c][Len(sleeps[c])] = LastInv(c).out.retry_after
            /\ now[c] = LastInv(c).at + LastInv(c).out.retry_after
            /\ end[c] = LastInv(c).at + 2 * LastInv(c).out.retry_after + timeout

\* retry_delay=1, timeout=5, backoff=2, rate-limited with r=10 at t=0 and
\* at t=10: the deadline is 35 after the second failure.
C6_Witness ==
    /\ retry_delay = 1 /\ timeout = 5 /\ backoff = 2
    /\ JustWidened(1)
    /\ Len(hist[1]) = 2
    /\ \A i \in 1..2 : RateLimitFailure(hist[1][i]) /\ hist[1][i].out.retry_after = 10
    /\ hist[1][1].at = 0 /\ hist[1][2].at = 10
    /\ sleeps[1] = <<10, 10>>
    /\ end[1] = 35

\* C7 as stated: with timeout > 0, a call whose every invocation so far
\* failed with a rate-limit error, retried on by the policy or not, has
\* neither returned nor raised.
C7_Original ==
    \A c \in Started :
        (/\ timeout > 0
         /\ \A i \in 1..Len(hist[c]) : hist[c][i].out.kind = "RateLimitReachedError")
        => /\ ~LeftLoop(c)
           /\ result[c] = NoResult

\* C7: with timeout > 0, a call whose every invocation so far failed with a
\* rate-limit error the policy retries on has not left the loop: it has
\* neither returned nor raised, and at loop-top the deadline is still ahead.
C7_RateLimitedForever ==
    \A c \in Started :
        (/\ timeout > 0
         /\ \A i \in 1..Len(hist[c]) : RateLimitFailure(hist[c][i]))
        => /\ ~LeftLoop(c)
           /\ result[c] = NoResult
           /\ pc[c] = "test" => now[c] < end[c]

\* Three rate-limit failures in a row, the call still looping.
C7_Witness ==
    /\ timeout > 0
    /\ Len(hist[1]) = 3
    /\ \A i \in 1..3 : RateLimitFailure(hist[1][i])
    /\ pc[1] = "test"

\* What a call run alone has done once func has produced the outcomes h in
\* this order, computed from h and the policy only: the call is at loop-top
\* at time t before invocation i, with locals d (delay), en (end), ex
\* (exc_info) and the suspends sl made so far.
RECURSIVE AloneFrom(_, _, _, _, _, _, _)
AloneFrom(h, i, t, d, en, ex, sl) ==
    LET waiting == [sleeps |-> sl, result |-> NoResult, delay |-> d,
                    end |-> en, exc_info |-> ex, used |-> i - 1]
        over(res) == [sleeps |-> sl, result |-> res, delay |-> d,
                      end |-> en, exc_info |-> ex, used |-> i]
    IN IF t < en
         THEN IF i > Len(h) THEN waiting
              ELSE LET o == h[i].out
                       t1 == t + (h[i].at - h[i].began)
                   IN IF o.kind = "ok" THEN over([how |-> "return", val |-> o])
                      ELSE IF o.kind \notin retry_exceptions
                        THEN over([how |-> "raise", val |-> o])
                      ELSE IF o.kind = "RateLimitReachedError"
                        THEN AloneFrom(h, i + 1, t1 + o.retry_after, d,
                                       t1 + o.retry_after + o.retry_after + timeout,
                                       ex, Append(sl, o.retry_after))
                      ELSE AloneFrom(h, i + 1, t1 + d, d * backoff, en, o,
                                     Append(sl, d))
         ELSE IF ex # None
                THEN [sleeps |-> sl, result |-> [how |-> "raise", val |-> ex],
                      delay |-> d, end |-> en, exc_info |-> ex, used |-> i - 1]
              ELSE IF i > Len(h) THEN waiting
              ELSE over([how |-> IF h[i].out.kind = "ok" THEN "return" ELSE "raise",
                         val |-> h[i].out])

RunAlone(h) == AloneFrom(h, 1, 0, retry_delay, timeout, None, <<>>)

\* C8: with two calls interleaved at every step, whenever a call waits for
\* func or is over, its suspends, its outcome and its locals are those of a
\* call run alone on the same outcomes of func, under the same policy; and
\* the policy is the one the wrapper was made with.
C8_CallsIndependent ==
    \A c \in Started :
        pc[c] \in {"invoke", "fallback", "done"} =>
            LET a == RunAlone(hist[c])
            IN /\ a.used = Len(hist[c])
               /\ sleeps[c] = a.sleeps
               /\ result[c] = a.result
               /\ delay[c] = a.delay
               /\ end[c] = a.end
               /\ exc_info[c] = a.exc_info
               /\ (pc[c] = "done") = (a.result # NoResult)

\* Both calls are over, one raised after two backoff suspends, the other
\* returned after a rate-limit suspend.
C8_Witness ==
    /\ Started = {1, 2}
    /\ pc[1] = "done" /\ pc[2] = "done"
    /\ result[1].how = "raise" /\ Len(sleeps[1]) = 2 /\ PrefixTransient(1, 2)
    /\ result[2].how = "return" /\ Len(sleeps[2]) = 1
    /\ RateLimitFailure(hist[2][1])

\* The retry_after of the widening before the one call c is about to make
\* (0 when there was none): e[c] is the last entry of hist[c].
PrevRetryAfter(c) ==
    LET idx == {i \in 1..(Len(hist[c]) - 1) : RateLimitFailure(hist[c][i])}
    IN IF idx = {} THEN 0
       ELSE hist[c][CHOOSE i \in idx : \A j \in idx : j <= i].out.retry_after

\* C9 as stated: once set, the deadline of a call never decreases.
C9_Original ==
    [][\A c \in Started : pc[c] # "start" => end'[c] >= end[c]]_vars

\* C9 amended: the deadline of a call never falls below its first value,
\* start + timeout, and a widening does not decrease it when its retry_after
\* is at least the retry_after of the previous widening (or is the first).
C9_DeadlineForward ==
    [][\A c \in Started :
          pc[c] # "start" =>
              /\ end'[c] >= timeout
              /\ (pc[c] = "caught" /\ e[c].retry_after >= PrevRetryAfter(c))
                    => end'[c] >= end[c]]_vars

\* A second widening, with a retry_after as large as the first, has moved
\* the deadline further.
C9_Witness ==
    /\ JustWidened(1)
    /\ Len(hist[1]) = 2
    /\ RateLimitFailure(hist[1][1])
    /\ hist[1][2].out.retry_after >= hist[1][1].out.retry_after
    /\ hist[1][1].out.retry_after > 0
    /\ end[1] > hist[1][1].at + 2 * hist[1][1].out.retry_after + timeout

\* C10: with backoff >= 1 the delay of a call never decreases.
C10_DelayMonotone ==
    [][\A c \in Started :
          (backoff >= 1 /\ retry_delay >= 0 /\ pc[c] # "start")
              => delay'[c] >= delay[c]]_vars

\* The delay has grown, with rate-limit and transient failures interleaved.
C10_Witness ==
    /\ backoff >= 1
    /\ delay[1] > retry_delay
    /\ \E i \in 1..Len(hist[1]) : RateLimitFailure(hist[1][i])
    /\ \E i \in 1..Len(hist[1]) : TransientFailure(hist[1][i])
    /\ TransientFailure(LastInv(1))

\* The transient failures among the first n invocations of call c.
TransientUpTo(c, n) == {i \in 1..n : TransientFailure(hist[c][i])}

\* C11: suspend j of a call answers its invocation j: it lasts retry_after
\* after a rate-limit failure, and retry_delay * backoff^m after a transient
\* failure that m transient failures precede, whatever rate-limit failures
\* lie between; the delay and the recorded error are those the handled
\* transient failures alone produce.
C11_RateLimitKeepsBackoff ==
    \A c \in Started :
        /\ Len(sleeps[c]) <= Len(hist[c])
        /\ \A j \in 1..Len(sleeps[c]) :
              /\ RateLimitFailure(hist[c][j]) =>
                    sleeps[c][j] = hist[c][j].out.retry_after
              /\ TransientFailure(hist[c][j]) =>
                    sleeps[c][j] =
                       retry_delay * Pow(backoff, Cardinality(TransientUpTo(c, j - 1)))
        /\ pc[c] # "start" =>
              LET handled == TransientUpTo(c, Len(sleeps[c]))
              IN /\ delay[c] = retry_delay * Pow(backoff, Cardinality(handled))
                 /\ exc_info[c] =
                       IF handled = {} THEN None
                       ELSE hist[c][CHOOSE i \in handled : \A j \in handled : j <= i].out

\* Transient, rate-limit, transient: suspends 1, 10, 2.
C11_Witness ==
    /\ retry_delay = 1 /\ backoff = 2
    /\ Len(hist[1]) = 3
    /\ TransientFailure(hist[1][1])
    /\ RateLimitFailure(hist[1][2])
    /\ TransientFailure(hist[1][3])
    /\ sleeps[1] = <<1, 10, 2>>
    /\ delay[1] = 4
    /\ exc_info[1] = hist[1][3].out

\* Call c has reached line 339.
FallbackReached(c) ==
    pc[c] = "fallback" \/ \E i \in 1..Len(hist[c]) : ~hist[c][i].inloop

\* C12: with timeout > 0 the loop is left on the deadline only with a
\* transient error recorded, so line 339 is never reached and func is about
\* to be invoked only while now < end; with timeout <= 0 the loop body is
\* never entered and the loop is left with nothing recorded, so line 339 is the
\* only invocation.  Line 339 is reached only with no suspend made.
C12_FallbackOnlyWithoutBudget ==
    \A c \in Started :
        /\ timeout > 0 =>
              /\ ~FallbackReached(c)
              /\ pc[c] = "after" =>
                    exc_info[c] # None /\ TransientUpTo(c, Len(hist[c])) # {}
              /\ pc[c] = "invoke" => now[c] < end[c]
        /\ timeout <= 0 =>
              /\ pc[c] \notin {"invoke", "caught"}
              /\ \A i \in 1..Len(hist[c]) : ~hist[c][i].inloop
              /\ pc[c] = "after" => exc_info[c] = None
              /\ pc[c] = "done" => FallbackReached(c)
        /\ FallbackReached(c) => sleeps[c] = <<>> /\ Len(hist[c]) <= 1

\* The loop is left on the deadline after a rate-limit and a transient
\* failure, with the transient error recorded.
C12_Witness ==
    /\ timeout > 0
    /\ pc[1] = "after"
    /\ \E i \in 1..Len(hist[1]) : RateLimitFailure(hist[1][i])
    /\ exc_info[1] # None

\* Call c is over and a rate-limit error ended it: it is the error raised,
\* or the error of the last invocation made.
EndedByRateLimit(c) ==
    /\ pc[c] = "done"
    /\ \/ result[c].how = "raise" /\ result[c].val.kind = "RateLimitReachedError"
       \/ LastInv(c).out.kind = "RateLimitReachedError"

\* C13 as stated: with timeout > 0, under every policy, no call is ended by
\* a rate-limit error: none is raised, and every rate-limit failure is
\* followed by another invocation before the call is over.
C13_Original ==
    \A c \in Started : timeout > 0 => ~EndedByRateLimit(c)

\* C13 amended: with timeout > 0 and RateLimitReachedError among
\* retry_exceptions, no call is ended by a rate-limit error, and the loop is
\* not left right after a rate-limit failure.
C13_RateLimitNeverFinal ==
    \A c \in Started :
        (timeout > 0 /\ "RateLimitReachedError" \in retry_exceptions) =>
            /\ ~EndedByRateLimit(c)
            /\ (LeftLoop(c) /\ Len(hist[c]) >= 1) =>
                  LastInv(c).out.kind # "RateLimitReachedError"

\* A call that was rate-limited ended later, by raising a transient error.
C13_Witness ==
    /\ timeout > 0
    /\ "RateLimitReachedError" \in retry_exceptions
    /\ pc[1] = "done"
    /\ result[1].how = "raise"
    /\ \E i \in 1..Len(hist[1]) : RateLimitFailure(hist[1][i])

\* The last invocation of call c was made in the loop, began before the
\* deadline and came back at or after it.
Overran(c) ==
    /\ Len(hist[c]) >= 1
    /\ LastInv(c).inloop
    /\ LastInv(c).began < end[c]
    /\ LastInv(c).at >= end[c]

\* C14: an invocation made in the loop that comes back at or after the
\* deadline with a value, or with an error outside retry_exceptions, ends
\* the call with that value returned, or that error raised.
C14_InFlightNotCancelled ==
    \A c \in Started :
        Overran(c) =>
            /\ LastInv(c).out.kind = "ok" =>
                  /\ pc[c] = "done"
                  /\ result[c] = [how |-> "return", val |-> LastInv(c).out]
            /\ FatalFailure(LastInv(c)) =>
                  /\ pc[c] = "done"
                  /\ result[c] = [how |-> "raise", val |-> LastInv(c).out]

\* A value that came back after the deadline was returned.
C14_Witness ==
    /\ Overran(1)
    /\ LastInv(1).at > end[1]
    /\ Len(hist[1]) >= 2
    /\ pc[1] = "done"
    /\ result[1] = [how |-> "return", val |-> LastInv(1).out]

\* C15: a call raises an error of retry_exceptions only with the deadline
\* reached, now >= end; an error of retry_exceptions raised by an invocation
\* made in the loop is caught, not raised, and answered with one suspend.
C15_RetryableRaisedOnlyAfterDeadline ==
    \A c \in Started :
        /\ (/\ pc[c] = "done"
            /\ result[c].how = "raise"
            /\ result[c].val.kind \in retry_exceptions) => now[c] >= end[c]
        /\ pc[c] = "caught" => result[c] = NoResult
        /\ \A i \in 1..Len(hist[c]) :
              (hist[c][i].inloop /\ hist[c][i].out.kind \in retry_exceptions) =>
                  \/ i <= Len(sleeps[c])
                  \/ i = Len(hist[c]) /\ pc[c] = "caught"

\* A transient error is raised after two attempts, the deadline reached.
C15_Witness ==
    /\ pc[1] = "done"
    /\ result[1].how = "raise"
    /\ TransientFailure(LastInv(1))
    /\ result[1].val = LastInv(1).out
    /\ Len(hist[1]) = 2
    /\ hist[1][1].inloop
    /\ now[1] >= end[1]

\* ceil(a / b) for b > 0.
CeilDiv(a, b) == (a + b - 1) \div b

\* func has raised no rate-limit error in call c.
NoRateLimitError(c) ==
    \A i \in 1..Len(hist[c]) : hist[c][i].out.kind # "RateLimitReachedError"

\* Invocations call c has made in the loop.
InLoopInvocations(c) == Cardinality({i \in 1..Len(hist[c]) : hist[c][i].inloop})

\* C16: with retry_delay > 0 and backoff >= 1, a call in which func raises no
\* rate-limit error makes at most ceil(timeout / retry_delay) invocations in
\* the loop when timeout > 0, and it eventually returns or raises (the model
\* makes MaxAttempts invocations at most, so termination is checked for the
\* policies whose bound is within MaxAttempts).
C16_Terminates ==
    /\ [](\A c \in Started :
            (/\ retry_delay > 0 /\ backoff >= 1 /\ timeout > 0
             /\ NoRateLimitError(c))
            => InLoopInvocations(c) <= CeilDiv(timeout, retry_delay))
    /\ (/\ retry_delay > 0 /\ backoff >= 1
        /\ (timeout <= 0 \/ CeilDiv(timeout, retry_delay) <= MaxAttempts))
       => <>(pc[1] = "done" \/ ~NoRateLimitError(1))

\* A call ended after exactly ceil(timeout / retry_delay) = 3 invocations.
C16_Witness ==
    /\ retry_delay > 0 /\ backoff >= 1 /\ timeout > 0
    /\ NoRateLimitError(1)
    /\ pc[1] = "done"
    /\ result[1].how = "raise"
    /\ InLoopInvocations(1) = 3
    /\ CeilDiv(timeout, retry_delay) = 3

\* C17: func is about to be invoked in the loop only while now < end; the
\* loop is left only with now >= end, now = end included; and a call that
\* then raises after transient failures only raises the last of them, with
\* the deadline reached.
C17_StrictLoopCondition ==
    \A c \in Started :
        /\ pc[c] = "invoke" => now[c] < end[c]
        /\ pc[c] \in {"after", "fallback"} => now[c] >= end[c]
        /\ (/\ pc[c] = "done"
            /\ result[c].how = "raise"
            /\ Len(hist[c]) >= 1
            /\ hist[c][1].inloop
            /\ PrefixTransient(c, Len(hist[c])))
           => /\ now[c] >= end[c]
              /\ result[c].val = LastInv(c).out
              /\ Len(sleeps[c]) = Len(hist[c])

\* retry_delay=1, backoff=2, timeout=3: two invocations, suspends 1 and 2,
\* now = end = 3, and the second error is raised.
C17_Witness ==
    /\ retry_delay = 1 /\ backoff = 2 /\ timeout = 3
    /\ pc[1] = "done"
    /\ Len(hist[1]) = 2
    /\ PrefixTransient(1, 2)
    /\ sleeps[1] = <<1, 2>>
    /\ now[1] = 3 /\ end[1] = 3
    /\ result[1] = [how |-> "raise", val |-> hist[1][2].out]

\* C18: every error caught in the loop is followed by exactly one suspend;
\* a call that raises after k transient failures and no rate-limit failure
\* has made k suspends, the last one retry_delay * backoff^(k-1) in full,
\* and raises at now = time suspended + time in func, at or after the
\* deadline start + timeout.
C18_SuspendAfterEveryFailure ==
    \A c \in Started :
        /\ Len(sleeps[c]) =
              Cardinality({i \in 1..Len(hist[c]) :
                              hist[c][i].inloop /\ hist[c][i].out.kind \in retry_exceptions})
              - (IF pc[c] = "caught" THEN 1 ELSE 0)
        /\ (/\ pc[c] = "done"
            /\ result[c].how = "raise"
            /\ Len(hist[c]) >= 1
            /\ hist[c][1].inloop
            /\ PrefixTransient(c, Len(hist[c])))
           => LET k == Len(hist[c])
              IN /\ Len(sleeps[c]) = k
                 /\ sleeps[c][k] = retry_delay * Pow(backoff, k - 1)
                 /\ now[c] = Suspended(c) + InFunc(c)
                 /\ end[c] = timeout
                 /\ now[c] >= end[c]

\* The last suspend crossed the deadline: the error is raised after
\* start + timeout although func took no time.
C18_Witness ==
    /\ pc[1] = "done"
    /\ result[1].how = "raise"
    /\ Len(hist[1]) >= 2
    /\ hist[1][1].inloop
    /\ PrefixTransient(1, Len(hist[1]))
    /\ InFunc(1) = 0
    /\ now[1] > timeout

\* What the last call of set_driver did to the dictionary, whatever it
\* raised: nothing when the provider was a key; nothing that remains when
\* resolving raised ImportError or AttributeError; one new entry when it
\* returned the driver.
SetDriverCases ==
    last_call.op = "set_driver" =>
        /\ last_call.provider \in DOMAIN last_call.before =>
              /\ last_call.outcome = "AttributeError"
              /\ drivers = last_call.before
        /\ last_call.outcome \in {"ImportError", "AttributeError"} =>
              drivers = last_call.before
        /\ last_call.outcome = "ok" =>
              /\ last_call.provider \notin DOMAIN last_call.before
              /\ DOMAIN drivers = DOMAIN last_call.before \cup {last_call.provider}
              /\ drivers[last_call.provider] = last_call.entry
              /\ \A p \in DOMAIN last_call.before : drivers[p] = last_call.before[p]

\* get_driver never changes the dictionary and raises AttributeError for a
\* provider that is no key.
GetDriverCases ==
    last_call.op = "get_driver" =>
        /\ drivers = last_call.before
        /\ last_call.provider \notin DOMAIN last_call.before =>
              last_call.outcome = "AttributeError"

\* C19 as stated: set_driver is all-or-nothing: after any call of
\* set_driver that raised, the dictionary is as before the call.
C19_Original ==
    /\ SetDriverCases
    /\ GetDriverCases
    /\ (last_call.op = "set_driver" /\ last_call.outcome # "ok") =>
          drivers = last_call.before

\* C19 amended: after a set_driver that raised AttributeError or
\* ImportError the dictionary is as before the call; a set_driver that
\* returned added exactly its entry; a set_driver left by another exception
\* of the import keeps the new entry; get_driver changes nothing.
C19_SetDriverRollback ==
    /\ SetDriverCases
    /\ GetDriverCases
    /\ (last_call.op = "set_driver"
        /\ last_call.outcome \notin {"ok", "ImportError", "AttributeError"}) =>
          drivers = Put(last_call.before, last_call.provider, last_call.entry)

\* A set_driver whose class is missing from the module raised
\* AttributeError and left a dictionary that holds another provider as it was.
C19_Witness ==
    /\ last_call.op = "set_driver"
    /\ last_call.outcome = "AttributeError"
    /\ last_call.entry = <<"good", "Absent">>
    /\ last_call.provider \notin DOMAIN last_call.before
    /\ DOMAIN last_call.before # {}
    /\ drivers = last_call.before

====
